---------------------------- MODULE Spec2Model ----------------------------
(***************************************************************************)
(* A model of gee_redlist.map: get_utm_epsg, get_utm_proj_without_limits   *)
(* and create_country_map (src/src/gee_redlist/map.py), specification     *)
(* Spec; and of the asset-folder functions of gee_redlist.ee_rle,          *)
(* ensure_asset_folder_exists and create_asset_folder                      *)
(* (src/src/gee_redlist/ee_rle.py), specification SpecFolders.             *)
(* check_authentication and is_authenticated                               *)
(* (src/src/gee_redlist/ee_auth.py) and make_eoo of gee_redlist.ee_rle     *)
(* are the specification SpecEe.                                           *)
(*                                                                         *)
(* Python values are records [t, s, n]: t the Python type, s the           *)
(* characters of a str (a sequence of one-character strings, or a single   *)
(* opaque token), n the number of a float/int.  Longitudes and latitudes   *)
(* are whole degrees, projected coordinates whole metres.  The scale       *)
(* factor 0.9996 is held in ten-thousandths (9996).                        *)
(***************************************************************************)
EXTENDS Integers, Sequences, FiniteSets, TLC

(***************************************************************************)
(* Bounds of the model.                                                    *)
(***************************************************************************)
MaxLon == 200        \* get_utm_epsg is called with lon in -MaxLon..MaxLon
MaxLat == 90         \* ... and lat in {-MaxLat, -1, 0, 1, MaxLat}

(***************************************************************************)
(* Python values.                                                          *)
(***************************************************************************)
Str(s) == [t |-> "str", s |-> s, n |-> 0]
NoneVal == [t |-> "NoneType", s |-> <<>>, n |-> 0]
IntVal(k) == [t |-> "int", s |-> <<>>, n |-> k]
FloatVal(k) == [t |-> "float", s |-> <<>>, n |-> k]  \* k in tenths

\* Python truthiness: `if x:`
Truthy(v) ==
    CASE v.t = "NoneType" -> FALSE
      [] v.t = "str" -> v.s # <<>>
      [] OTHER -> v.n # 0

UpperAlpha == <<"A","B","C","D","E","F","G","H","I","J","K","L","M",
                "N","O","P","Q","R","S","T","U","V","W","X","Y","Z">>
LowerAlpha == <<"a","b","c","d","e","f","g","h","i","j","k","l","m",
                "n","o","p","q","r","s","t","u","v","w","x","y","z">>

\* the lower-case letter of every upper-case ASCII letter
LowerOf ==
    [c \in { UpperAlpha[i] : i \in 1..Len(UpperAlpha) } |->
        LowerAlpha[CHOOSE i \in 1..Len(UpperAlpha) : UpperAlpha[i] = c]]

\* str.lower() on one character
LowerChar(c) == IF c \in DOMAIN LowerOf THEN LowerOf[c] ELSE c

\* str.lower(): country_code.lower() at map.py:174 and :177
StrLower(s) == [i \in 1..Len(s) |-> LowerChar(s[i])]

\* hasattr(v, "lower"): only str has the method
HasLower(v) == v.t = "str"

(***************************************************************************)
(* get_utm_epsg and get_utm_proj_without_limits.                           *)
(***************************************************************************)

\* Python int(a / b) for b > 0: truncation toward zero
TruncDiv(a, b) == IF a >= 0 THEN a \div b ELSE -((-a) \div b)

\* a variant of utm_zone_of that forgets min(60, ...)
utm_zone_of_no_upper_clamp(lon_) ==
    LET raw == TruncDiv(lon_ + 180, 6) + 1
    IN  IF raw > 1 THEN raw ELSE 1

\* a variant of utm_zone_of that forgets max(1, ...)
utm_zone_of_no_lower_clamp(lon_) ==
    LET raw == TruncDiv(lon_ + 180, 6) + 1
    IN  IF raw < 60 THEN raw ELSE 60

\* map.py:58-61, the zone number of get_utm_epsg
utm_zone_of(lon_) ==
    LET raw == TruncDiv(lon_ + 180, 6) + 1
        capped == IF raw < 60 THEN raw ELSE 60      \* min(60, utm_zone)
    IN  IF capped > 1 THEN capped ELSE 1            \* max(1, ...)

\* a variant of get_utm_epsg that puts the equator in the south (lat > 0)
get_utm_epsg_equator_south(lon_, lat_) ==
    IF lat_ > 0 THEN 32600 + utm_zone_of(lon_)
                ELSE 32700 + utm_zone_of(lon_)

\* map.py:19-71
get_utm_epsg(lon_, lat_) ==
    IF lat_ >= 0 THEN 32600 + utm_zone_of(lon_)
                 ELSE 32700 + utm_zone_of(lon_)

\* a variant of get_utm_proj_without_limits centred on the zone's western
\* edge (the + 3 forgotten)
get_utm_proj_west_edge(zone_, south_) ==
    [projection        |-> "TransverseMercator",
     central_longitude |-> (zone_ - 1) * 6 - 180,
     scale_factor      |-> 9996,
     false_easting     |-> 500000,
     false_northing    |-> IF south_ THEN 10000000 ELSE 0]

\* a variant of get_utm_proj_without_limits that returns the standard
\* projection of the zone
get_utm_proj_standard(zone_, south_) ==
    [projection        |-> "UTM",
     central_longitude |-> (zone_ - 1) * 6 - 180 + 3,
     scale_factor      |-> 9996,
     false_easting     |-> 500000,
     false_northing    |-> IF south_ THEN 10000000 ELSE 0]

\* map.py:74-89; scale_factor in ten-thousandths
get_utm_proj_without_limits(zone_, south_) ==
    [projection        |-> "TransverseMercator",
     central_longitude |-> (zone_ - 1) * 6 - 180 + 3,
     scale_factor      |-> 9996,
     false_easting     |-> 500000,
     false_northing    |-> IF south_ THEN 10000000 ELSE 0]

NoProj == [projection |-> "none", central_longitude |-> 0,
           scale_factor |-> 0, false_easting |-> 0, false_northing |-> 0]

\* the x_limits cartopy gives a projection, in metres: those of ccrs.UTM
\* and those of ccrs.TransverseMercator (tests/test_map.py:447-448)
x_limits(p) ==
    IF p.projection = "UTM" THEN << -250000, 1250000 >>
                            ELSE << -20000000, 20000000 >>

(***************************************************************************)
(* The collaborators of create_country_map.                                *)
(***************************************************************************)

\* The boundary store wkls (map.py:177), as the tests mock it: a 2-letter
\* lower-case key gives a geometry, here its centroid <<lon, lat>>.
BoundaryStore ==
    (<< "s", "g" >> :> [centroid |-> << 104, 1 >>]) @@
    (<< "n", "z" >> :> [centroid |-> << 172, -41 >>])

NoGeometry == [centroid |-> << 0, 0 >>]

\* The error wkls raises for a key it does not hold (tests/test_map.py:56)
StoreNotFound(key) ==
    [type |-> "ValueError", msg |-> "No result found for", arg |-> key]

\* 'NoneType'/'int' object has no attribute 'lower' (map.py:174, :177)
NoLowerAttribute(v) ==
    [type |-> "AttributeError", msg |-> "object has no attribute 'lower'",
     arg |-> << v.t >>]

\* An exception of the Earth Engine client or of matplotlib's savefig
ExternalError(where) ==
    [type |-> "Exception", msg |-> where, arg |-> <<>>]

NoError == [type |-> "", msg |-> "", arg |-> <<>>]

\* Bounds [minx, miny, maxx, maxy] of the geometry pyproj/shapely return
\* (map.py:205-215), in metres; every range is a multiple of 20 m, so that
\* 0.15 * range is a whole number of metres.
UtmBoundsSamples ==
    { << 300000, 100000, 300100, 100400 >>,     \* both ranges positive
      << -250000, 9000000, 750000, 9000000 >>,  \* y range zero
      << 500000, 0, 500000, 0 >> }              \* a single point

NoBounds == << 0, 0, 0, 0 >>

\* a variant of padded_extent with the 5% padding the comment at map.py:218
\* speaks of
padded_extent_5_percent(b) ==
    LET x_range == b[3] - b[1]
        y_range == b[4] - b[2]
        padding_x == (x_range * 5) \div 100
        padding_y == (y_range * 5) \div 100
    IN  << b[1] - padding_x, b[3] + padding_x,
           b[2] - padding_y, b[4] + padding_y >>

\* map.py:219-229: extent [minx, maxx, miny, maxy]
padded_extent(b) ==
    LET x_range == b[3] - b[1]
        y_range == b[4] - b[2]
        padding_x == (x_range * 15) \div 100
        padding_y == (y_range * 15) \div 100
    IN  << b[1] - padding_x, b[3] + padding_x,
           b[2] - padding_y, b[4] + padding_y >>

\* map.py:274
scale == 10000

\* map.py:280-285: the parameters of the getDownloadURL request of the
\* image; the region is the rectangle of map.py:239-243
download_params(epsg, ext) ==
    [format |-> "GEO_TIFF",
     region |-> << ext[1], ext[3], ext[2], ext[4] >>,
     crs |-> epsg,
     crs_transform |-> << scale, 0, ext[1], 0, scale, ext[3] >>]

\* a variant of mask_download_params whose grid starts at the upper edge
mask_download_params_from_top(epsg, ext) ==
    [format |-> "GEO_TIFF",
     region |-> << ext[1], ext[3], ext[2], ext[4] >>,
     crs |-> epsg,
     crs_transform |-> << scale, 0, ext[1], 0, scale, ext[4] >>]

\* map.py:288-293: the parameters of the getDownloadURL request of the mask
mask_download_params(epsg, ext) ==
    [format |-> "GEO_TIFF",
     region |-> << ext[1], ext[3], ext[2], ext[4] >>,
     crs |-> epsg,
     crs_transform |-> << scale, 0, ext[1], 0, scale, ext[3] >>]

(***************************************************************************)
(* Arguments callers pass.                                                 *)
(***************************************************************************)
CountryCodes ==
    { NoneVal, IntVal(123),
      Str(<<>>), Str(<< " ", " " >>),
      Str(<< "U" >>), Str(<< "U", "S", "A" >>),
      Str(<< "U", "1" >>), Str(<< "U", "$" >>),
      Str(<< "Z", "Z" >>),
      Str(<< "S", "G" >>), Str(<< "s", "g" >>),
      Str(<< "N", "Z" >>) }

OutputPaths == { NoneVal, Str(<< "out.png" >>) }
Titles == { NoneVal, Str(<<>>), Str(<< "T" >>) }
FillColors == { NoneVal, Str(<< "red" >>) }
EdgeColors == { NoneVal, Str(<< "black" >>) }
EdgeWidths == { NoneVal, FloatVal(15) }
VisParams == { NoneVal, [t |-> "dict", s |-> <<>>, n |-> 2] }

Lons == (-MaxLon) .. MaxLon
Lats == { -MaxLat, -1, 0, 1, MaxLat }
Zones == 1 .. 60

VARIABLES
    pc,            \* position in the called function
    fn,            \* the function called
    country_code, output_path, show_surrounding_countries, show_grid,
    show_border, title, fill_color, edge_color, edge_width,
    arg_output_path, \* output_path as the caller passed it
    ee_image,      \* TRUE iff an ee.Image is passed
    ee_vis_params, clip_ee_image,
    raised,        \* the exception leaving the function, or NoError
    result,        \* the value returned
    store_queries, \* keys asked of wkls, in order
    country_geometry,
    lon, lat,      \* arguments of get_utm_epsg
    utm_epsg, utm_zone, is_south, proj,
    fig,           \* "none", "open", "closed"
    bounds, extent,
    calls,         \* drawing and remote calls made, in order
    url_requests,  \* getDownloadURL requests, in order
    http_gets,     \* requests.get calls, in order: "value" / "mask"
    geometry_kwargs,
    warnings,      \* warnings printed by add_ee_image
    fetch_fault,   \* what went wrong in the try block: "none", "timeout",
                   \* "error"
    saved,         \* paths written by savefig, in order
    build_fault,   \* the step outside the try block that raised, or "none"
    ee_image_clipped, \* the image add_ee_image downloads from
    img_array_rgb, \* the value raster, pixel-major
    img_array_mask, \* the mask raster, pixel-major
    basemap,       \* the masked array handed to imshow
    titles_drawn,  \* texts passed to plt.title, in order
    assets,        \* the asset folders that exist in Earth Engine
    caller,        \* per caller: the folder call it is in, or was last in
    returns,       \* the folder calls that returned, in order
    overlapped,    \* a folder call began while another was under way
    ee_pc,         \* position in a call of gee_redlist.ee_auth or make_eoo
    ee_fn,         \* the function called there
    ee_in,         \* its arguments and the answers of Earth Engine
    ee_log,        \* the Earth Engine calls it made, in order
    status,        \* the dictionary check_authentication built
    ee_out,        \* the value returned
    ee_raised      \* the exception that left the function, or "none"

args == << country_code, output_path, show_surrounding_countries, show_grid,
           show_border, title, fill_color, edge_color, edge_width,
           arg_output_path, ee_image, ee_vis_params, clip_ee_image >>
geo == << store_queries, country_geometry, lon, lat, utm_epsg, utm_zone,
          is_south, proj, bounds, extent >>
draw == << fig, calls, url_requests, http_gets, geometry_kwargs, warnings,
           fetch_fault, saved >>
shown == << ee_image_clipped, img_array_rgb, img_array_mask, basemap,
            titles_drawn >>
folders == << assets, caller, returns, overlapped >>
mapvars == << pc, fn, args, geo, draw, shown, build_fault, raised,
             result >>
eevars == << ee_pc, ee_fn, ee_in, ee_log, status, ee_out, ee_raised >>
vars == << mapvars, folders, eevars >>

\* Bound: the folder calls made in a run
MaxFolderCalls == 3

Callers == { 1, 2 }
FolderPaths == { "projects/test/assets/folder",
                 "projects/goog-rle-assessments/assets/MMR-T1_1_1" }
FolderFunctions == { "ensure_asset_folder_exists", "create_asset_folder" }
NoCall == [pc |-> "idle", fn |-> "none", folder_path |-> "none",
           before |-> {}, seen |-> "none", get_paths |-> <<>>,
           create_paths |-> <<>>, raised |-> "none"]

NoInput == [given |-> FALSE]
NoStatus == [built |-> FALSE]
NoOutput == [t |-> "nothing"]

NoImage == [image |-> "none", geometry |-> "none"]
NoArray == <<>>
NoBasemap == [drawn |-> FALSE, data |-> <<>>, mask |-> <<>>]

NoKwargs == [alpha |-> 0, facecolor |-> NoneVal, edgecolor |-> NoneVal,
             linewidth |-> NoneVal, has_edgecolor |-> FALSE,
             has_linewidth |-> FALSE]

Init ==
    /\ pc = "idle" /\ fn = "none"
    /\ country_code = NoneVal /\ output_path = NoneVal
    /\ arg_output_path = NoneVal
    /\ show_surrounding_countries = TRUE /\ show_grid = TRUE
    /\ show_border = TRUE /\ title = NoneVal /\ fill_color = NoneVal
    /\ edge_color = Str(<< "black" >>) /\ edge_width = FloatVal(15)
    /\ ee_image = FALSE /\ ee_vis_params = NoneVal /\ clip_ee_image = FALSE
    /\ raised = NoError /\ result = NoneVal
    /\ store_queries = <<>> /\ country_geometry = NoGeometry
    /\ lon = 0 /\ lat = 0 /\ utm_epsg = 0 /\ utm_zone = 0
    /\ is_south = FALSE /\ proj = NoProj
    /\ fig = "none" /\ bounds = NoBounds /\ extent = NoBounds
    /\ calls = <<>> /\ url_requests = <<>> /\ http_gets = <<>>
    /\ geometry_kwargs = NoKwargs /\ warnings = <<>> /\ saved = <<>>
    /\ fetch_fault = "none" /\ build_fault = "none"
    /\ ee_image_clipped = NoImage
    /\ img_array_rgb = NoArray /\ img_array_mask = NoArray
    /\ basemap = NoBasemap /\ titles_drawn = <<>>
    /\ assets = {}
    /\ caller = [p \in Callers |-> NoCall]
    /\ returns = <<>> /\ overlapped = FALSE
    /\ ee_pc = "idle" /\ ee_fn = "none" /\ ee_in = NoInput
    /\ ee_log = <<>> /\ status = NoStatus /\ ee_out = NoOutput
    /\ ee_raised = "none"

\* the function raises e
Raise(e) == pc' = "raised" /\ raised' = e /\ UNCHANGED result

(***************************************************************************)
(* Direct calls of the two projection helpers.                             *)
(***************************************************************************)

\* get_utm_epsg(lon, lat), map.py:19-71
CallGetUtmEpsg ==
    /\ pc = "idle"
    /\ UNCHANGED << folders, eevars >>
    /\ UNCHANGED build_fault
    /\ UNCHANGED shown
    /\ \E x \in Lons, y \in Lats :
         /\ lon' = x /\ lat' = y
         /\ utm_epsg' = get_utm_epsg(x, y)
    /\ fn' = "get_utm_epsg" /\ pc' = "returned"
    /\ UNCHANGED << args, draw, raised, result, store_queries,
                    country_geometry, utm_zone, is_south, proj, bounds,
                    extent >>

\* get_utm_proj_without_limits(utm_zone, is_south), map.py:74-89
CallGetUtmProj ==
    /\ pc = "idle"
    /\ UNCHANGED << folders, eevars >>
    /\ UNCHANGED build_fault
    /\ UNCHANGED shown
    /\ \E z \in Zones, s \in BOOLEAN :
         /\ utm_zone' = z /\ is_south' = s
         /\ proj' = get_utm_proj_without_limits(z, s)
    /\ fn' = "get_utm_proj_without_limits" /\ pc' = "returned"
    /\ UNCHANGED << args, draw, raised, result, store_queries,
                    country_geometry, lon, lat, utm_epsg, bounds, extent >>

(***************************************************************************)
(* create_country_map, map.py:92-535, one action per step.                 *)
(***************************************************************************)
log(op) == calls' = Append(calls, op)
logs(ops) == calls' = calls \o ops

\* The call (map.py:92-105).  An argument is drawn from the values callers
\* pass at the step that first reads it, and holds the default of the
\* signature until then; country_code and output_path are read at once.
CallCreateCountryMap ==
    /\ pc = "idle"
    /\ UNCHANGED << folders, eevars >>
    /\ UNCHANGED build_fault
    /\ UNCHANGED shown
    /\ country_code' \in CountryCodes
    /\ output_path' \in OutputPaths
    /\ arg_output_path' = output_path'
    /\ fn' = "create_country_map" /\ pc' = "output_path"
    /\ UNCHANGED << show_surrounding_countries, show_grid, show_border,
                    title, fill_color, edge_color, edge_width, ee_image,
                    ee_vis_params, clip_ee_image, geo, draw, raised, result >>

\* a variant of default_output_path that keeps the code as spelled
default_output_path_as_spelled(code) == Str(code.s \o << ".png" >>)

\* the path create_country_map falls back on (map.py:174)
default_output_path(code) == Str(StrLower(code.s) \o << ".png" >>)

\* map.py:173-174
ResolveOutputPath ==
    /\ pc = "output_path"
    /\ UNCHANGED << folders, eevars >>
    /\ UNCHANGED build_fault
    /\ UNCHANGED shown
    /\ IF output_path = NoneVal
       THEN IF HasLower(country_code)
            THEN /\ output_path' = default_output_path(country_code)
                 /\ pc' = "lookup"
                 /\ UNCHANGED << raised, result >>
            ELSE /\ Raise(NoLowerAttribute(country_code))
                 /\ UNCHANGED output_path
       ELSE /\ pc' = "lookup"
            /\ UNCHANGED << output_path, raised, result >>
    /\ UNCHANGED << fn, country_code, show_surrounding_countries, show_grid,
                    show_border, title, fill_color, edge_color, edge_width,
                    arg_output_path, ee_image, ee_vis_params, clip_ee_image,
                    geo, draw >>

\* a variant of store_key that passes the code as spelled
store_key_as_spelled(code) == code.s

\* the key create_country_map asks the store for (map.py:177)
store_key(code) == StrLower(code.s)

\* map.py:176-178
LookupBoundary ==
    /\ pc = "lookup"
    /\ UNCHANGED << folders, eevars >>
    /\ UNCHANGED build_fault
    /\ UNCHANGED shown
    /\ IF ~HasLower(country_code)
       THEN /\ Raise(NoLowerAttribute(country_code))
            /\ UNCHANGED << store_queries, country_geometry >>
       ELSE LET key == store_key(country_code) IN
            /\ store_queries' = Append(store_queries, key)
            /\ IF key \in DOMAIN BoundaryStore
               THEN /\ country_geometry' = BoundaryStore[key]
                    /\ pc' = "projection"
                    /\ UNCHANGED << raised, result >>
               ELSE /\ Raise(StoreNotFound(key))
                    /\ UNCHANGED country_geometry
    /\ UNCHANGED << fn, args, draw, lon, lat, utm_epsg, utm_zone, is_south,
                    proj, bounds, extent >>

\* map.py:180-190
ChooseProjection ==
    /\ pc = "projection"
    /\ UNCHANGED << folders, eevars >>
    /\ UNCHANGED build_fault
    /\ UNCHANGED shown
    /\ LET centroid == country_geometry.centroid
           epsg == get_utm_epsg(centroid[1], centroid[2])
       IN  /\ lon' = centroid[1] /\ lat' = centroid[2]
           /\ utm_epsg' = epsg
           /\ utm_zone' = epsg % 100
           /\ is_south' = (centroid[2] < 0)
           /\ proj' = get_utm_proj_without_limits(epsg % 100, centroid[2] < 0)
    /\ pc' = "figure"
    /\ UNCHANGED << fn, args, draw, raised, result, store_queries,
                    country_geometry, bounds, extent >>

\* map.py:192-197
CreateFigure ==
    /\ pc = "figure"
    /\ UNCHANGED << folders, eevars >>
    /\ UNCHANGED build_fault
    /\ UNCHANGED shown
    /\ fig' = "open"
    /\ logs(<< "figure", "add_subplot", "stock_img" >>)
    /\ pc' = "transform"
    /\ UNCHANGED << fn, args, geo, raised, result, url_requests, http_gets,
                    geometry_kwargs, warnings, fetch_fault, saved >>

\* map.py:199-216: pyproj and shapely give the bounds of the projected
\* geometry
TransformGeometry ==
    /\ pc = "transform"
    /\ UNCHANGED << folders, eevars >>
    /\ UNCHANGED build_fault
    /\ UNCHANGED shown
    /\ bounds' \in UtmBoundsSamples
    /\ pc' = "extent"
    /\ UNCHANGED << fn, args, draw, raised, result, store_queries,
                    country_geometry, lon, lat, utm_epsg, utm_zone, is_south,
                    proj, extent >>

\* map.py:218-234
ComputeExtent ==
    /\ pc = "extent"
    /\ UNCHANGED << folders, eevars >>
    /\ UNCHANGED build_fault
    /\ UNCHANGED shown
    /\ extent' = padded_extent(bounds)
    /\ log("set_extent")
    /\ ee_image' \in BOOLEAN
    /\ pc' = IF ee_image' THEN "ee_region" ELSE "features"
    /\ UNCHANGED << fn, country_code, output_path, show_surrounding_countries,
                    show_grid, show_border, title, fill_color, edge_color,
                    edge_width, arg_output_path, ee_vis_params, clip_ee_image,
                    raised, result, store_queries,
                    country_geometry, lon, lat, utm_epsg, utm_zone, is_south,
                    proj, bounds, fig, url_requests, http_gets,
                    geometry_kwargs, warnings, fetch_fault, saved >>

TimeoutWarning == "download timed out, skipping basemap layer"
FailedWarning == "failed to download or display Earth Engine image"

\* a variant of handle_build_exception that treats the error like a failed
\* download
handle_build_exception_soft(where) == [caught |-> TRUE]

\* what becomes of an exception raised at map.py:234-293, before the try
\* statement of map.py:298 is entered: no except clause is around it
handle_build_exception(where) == [caught |-> FALSE]

\* the step `where` of building the remote request raises
BuildFails(where) ==
    /\ build_fault' = where
    /\ IF handle_build_exception(where).caught
       THEN /\ warnings' = Append(warnings, FailedWarning)
            /\ pc' = "features"
            /\ UNCHANGED << raised, result >>
       ELSE /\ Raise(ExternalError(where))
            /\ UNCHANGED warnings

\* map.py:236-243: ee.Geometry.Rectangle; an exception of the client is not
\* caught
BuildEeRegion ==
    /\ pc = "ee_region"
    /\ UNCHANGED << folders, eevars >>
    /\ UNCHANGED shown
    /\ log("ee.Geometry.Rectangle")
    /\ \/ /\ pc' = "ee_prepare"
          /\ UNCHANGED << raised, result, warnings, build_fault >>
       \/ BuildFails("ee.Geometry.Rectangle")
    /\ UNCHANGED << fn, args, geo, fig, url_requests, http_gets,
                    geometry_kwargs, fetch_fault, saved >>

\* a variant of clip_image that clips to the projected boundary
clip_image_projected(clip) ==
    IF clip THEN [image |-> "clipped", geometry |-> "UTM"]
            ELSE [image |-> "supplied", geometry |-> "none"]

\* ee_image_clipped (map.py:253-261): the supplied image, clipped to the
\* geometry built from mapping(country_geometry), the boundary as the store
\* gave it (WGS84), when clip_ee_image is set
clip_image(clip) ==
    IF clip THEN [image |-> "clipped", geometry |-> "WGS84"]
            ELSE [image |-> "supplied", geometry |-> "none"]

\* map.py:252-272: clip to the WGS84 geometry, visualize
PrepareEeImage ==
    /\ pc = "ee_prepare"
    /\ UNCHANGED << folders, eevars >>
    /\ clip_ee_image' \in BOOLEAN
    /\ ee_vis_params' \in VisParams
    /\ LET clip_ops == IF clip_ee_image' THEN << "ee.Geometry", "clip" >>
                                         ELSE <<>>
           vis_ops == IF Truthy(ee_vis_params') THEN << "visualize" >>
                                                ELSE <<>>
       IN  \/ /\ logs(clip_ops \o vis_ops)
              /\ ee_image_clipped' = clip_image(clip_ee_image')
              /\ pc' = "ee_urls"
              /\ UNCHANGED << raised, result, warnings, build_fault >>
           \/ /\ clip_ee_image'
              /\ logs(clip_ops)
              /\ UNCHANGED ee_image_clipped
              /\ BuildFails("clip")
           \/ /\ Truthy(ee_vis_params')
              /\ logs(clip_ops \o vis_ops)
              /\ ee_image_clipped' = clip_image(clip_ee_image')
              /\ BuildFails("visualize")
    /\ UNCHANGED << img_array_rgb, img_array_mask, basemap, titles_drawn >>
    /\ UNCHANGED << fn, country_code, output_path, show_surrounding_countries,
                    show_grid, show_border, title, fill_color, edge_color,
                    edge_width, arg_output_path, ee_image, geo, fig,
                    url_requests, http_gets, geometry_kwargs, fetch_fault,
                    saved >>

\* one getDownloadURL request of add_ee_image (map.py:280-285, 288-293)
url_request(on) ==
    [on |-> on, image |-> ee_image_clipped.image,
     params |-> IF on = "mask" THEN mask_download_params(utm_epsg, extent)
                               ELSE download_params(utm_epsg, extent)]

\* map.py:274-294
RequestUrls ==
    /\ pc = "ee_urls"
    /\ UNCHANGED << folders, eevars >>
    /\ UNCHANGED shown
    /\ \/ /\ logs(<< "getDownloadURL", "mask", "getDownloadURL" >>)
          /\ url_requests' = url_requests \o
                << url_request("image"), url_request("mask") >>
          /\ pc' = "get_value"
          /\ UNCHANGED << raised, result, warnings, build_fault >>
       \/ /\ logs(<< "getDownloadURL" >>)
          /\ url_requests' = Append(url_requests, url_request("image"))
          /\ BuildFails("getDownloadURL")
       \/ /\ logs(<< "getDownloadURL", "mask", "getDownloadURL" >>)
          /\ url_requests' = url_requests \o
                << url_request("image"), url_request("mask") >>
          /\ BuildFails("getDownloadURL(mask)")
    /\ UNCHANGED << fn, args, geo, fig, http_gets, geometry_kwargs,
                    fetch_fault, saved >>


\* a variant of handle_fetch_exception with the timeout clause alone
handle_fetch_exception_timeout_only(kind) ==
    [caught |-> kind = "timeout", warning |-> TimeoutWarning]

\* the except clauses of add_ee_image (map.py:390-393): whether an exception
\* raised inside the try block is caught, and the warning printed for it
handle_fetch_exception(kind) ==
    [caught |-> TRUE,
     warning |-> IF kind = "timeout" THEN TimeoutWarning ELSE FailedWarning]

\* a variant of resume_after_fetch_fault that goes on with the download
\* that is next
resume_with_next_download(at) ==
    IF at = "get_value" THEN "get_mask" ELSE "features"

\* where create_country_map goes on after the except clauses of
\* map.py:390-393: behind add_ee_image, whatever step failed
resume_after_fetch_fault(at) == "features"

\* a variant of after_response that decodes as soon as a response is in
after_response_decode(at) == "decode"

\* the step after a response was received (map.py:299-307)
after_response(at) == IF at = "get_value" THEN "get_mask" ELSE "decode"

\* an exception of kind `kind` is raised inside the try block
FetchFails(kind) ==
    LET h == handle_fetch_exception(kind) IN
    /\ fetch_fault' = kind
    /\ IF h.caught
       THEN /\ warnings' = Append(warnings, h.warning)
            /\ pc' = resume_after_fetch_fault(pc)
            /\ UNCHANGED << raised, result >>
       ELSE /\ Raise(ExternalError(kind))
            /\ UNCHANGED warnings

\* map.py:296-301: requests.get(url, timeout=300)
DownloadValue ==
    /\ pc = "get_value"
    /\ UNCHANGED << folders, eevars >>
    /\ UNCHANGED build_fault
    /\ UNCHANGED shown
    /\ http_gets' = Append(http_gets, "value")
    /\ log("requests.get")
    /\ \E outcome \in { "ok", "timeout", "error" } :
         IF outcome = "ok"
         THEN /\ pc' = after_response(pc)
              /\ UNCHANGED << warnings, fetch_fault, raised, result >>
         ELSE FetchFails(outcome)
    /\ UNCHANGED << fn, args, geo, fig, url_requests, geometry_kwargs,
                    saved >>

\* map.py:303-305: requests.get(url_mask, timeout=300)
DownloadMask ==
    /\ pc = "get_mask"
    /\ UNCHANGED << folders, eevars >>
    /\ UNCHANGED build_fault
    /\ UNCHANGED shown
    /\ http_gets' = Append(http_gets, "mask")
    /\ log("requests.get")
    /\ \E outcome \in { "ok", "timeout", "error" } :
         IF outcome = "ok"
         THEN /\ pc' = after_response(pc)
              /\ UNCHANGED << warnings, fetch_fault, raised, result >>
         ELSE FetchFails(outcome)
    /\ UNCHANGED << fn, args, geo, fig, url_requests, geometry_kwargs,
                    saved >>

\* Rasters as dataset.read() returns them (map.py:318, 320): one sequence of
\* pixel values per band.  The mask raster is downloaded from
\* ee_image_clipped.mask(), which has the bands of the image.
RasterSamples ==
    { [value |-> << << 7, 9 >> >>, mask |-> << << 0, 0 >> >>],
      [value |-> << << 0, 9 >> >>, mask |-> << << 255, 0 >> >>],
      [value |-> << << 1, 2 >>, << 3, 4 >>, << 5, 6 >> >>,
       mask |-> << << 1, 1 >>, << 0, 1 >>, << 1, 1 >> >>] }

\* np.moveaxis(a, 0, -1) (map.py:325-326): band-major to pixel-major
moveaxis(a) == [p \in 1..Len(a[1]) |-> [b \in 1..Len(a) |-> a[b][p]]]

\* a variant of mask_condition that masks negative mask values only
mask_condition_negative(m) ==
    [p \in 1..Len(m) |-> [b \in 1..Len(m[p]) |-> m[p][b] < 0]]

\* img_array_mask <= 0 (map.py:347)
mask_condition(m) ==
    [p \in 1..Len(m) |-> [b \in 1..Len(m[p]) |-> m[p][b] <= 0]]

\* the shape of a pixel-major array
shape(a) == << Len(a), Len(a[1]) >>

\* np.ma.masked_where(condition, a) (map.py:347): a with the elements
\* masked where condition holds; arrays of different shapes make it raise
masked_where(condition, a) ==
    IF shape(condition) = shape(a)
    THEN [raised |-> FALSE, data |-> a, mask |-> condition]
    ELSE [raised |-> TRUE, data |-> <<>>, mask |-> <<>>]

\* map.py:307-354: both responses are opened with rasterio and drawn; a
\* response that is no raster makes rasterio raise
DecodeAndShow ==
    /\ pc = "decode"
    /\ UNCHANGED << folders, eevars >>
    /\ UNCHANGED build_fault
    /\ \/ \E r \in RasterSamples :
            LET shown_array == masked_where(mask_condition(moveaxis(r.mask)),
                                            moveaxis(r.value))
            IN  /\ img_array_rgb' = moveaxis(r.value)
                /\ img_array_mask' = moveaxis(r.mask)
                /\ IF shown_array.raised
                   THEN /\ FetchFails("error")
                        /\ UNCHANGED << calls, basemap >>
                   ELSE /\ basemap' = [drawn |-> TRUE,
                                       data |-> shown_array.data,
                                       mask |-> shown_array.mask]
                        /\ log("imshow")
                        /\ pc' = "features"
                        /\ UNCHANGED << warnings, fetch_fault, raised,
                                        result >>
       \/ /\ FetchFails("error")
          /\ UNCHANGED << calls, img_array_rgb, img_array_mask, basemap >>
    /\ UNCHANGED << ee_image_clipped, titles_drawn >>
    /\ UNCHANGED << fn, args, geo, fig, url_requests, http_gets,
                    geometry_kwargs, saved >>

\* a variant of feature_ops that puts the reference image on top again
feature_ops_backdrop_again(show) ==
    IF show
    THEN << "add_feature(LAND)", "add_feature(OCEAN)",
            "add_feature(COASTLINE)", "add_feature(BORDERS)", "stock_img" >>
    ELSE << "add_feature(OCEAN)", "add_feature(LAND)", "stock_img" >>

\* the features added around the region (map.py:405-413)
feature_ops(show) ==
    IF show
    THEN << "add_feature(LAND)", "add_feature(OCEAN)",
            "add_feature(COASTLINE)", "add_feature(BORDERS)" >>
    ELSE << "add_feature(OCEAN)", "add_feature(LAND)" >>

\* map.py:404-413
AddFeatures ==
    /\ pc = "features"
    /\ UNCHANGED << folders, eevars >>
    /\ UNCHANGED build_fault
    /\ UNCHANGED shown
    /\ show_surrounding_countries' \in BOOLEAN
    /\ logs(feature_ops(show_surrounding_countries'))
    /\ pc' = "geometry"
    /\ UNCHANGED << fn, country_code, output_path, show_grid, show_border,
                    title, fill_color, edge_color, edge_width,
                    arg_output_path, ee_image, ee_vis_params, clip_ee_image,
                    geo, raised, result, fig, url_requests, http_gets,
                    geometry_kwargs, warnings, fetch_fault, saved >>

\* map.py:415-425; alpha in tenths
build_geometry_kwargs(fill, ecolor, ewidth) ==
    [alpha |-> 7,
     facecolor |-> IF Truthy(fill) THEN fill ELSE Str(<< "white" >>),
     has_edgecolor |-> Truthy(ecolor),
     edgecolor |-> IF Truthy(ecolor) THEN ecolor ELSE NoneVal,
     has_linewidth |-> Truthy(ewidth),
     linewidth |-> IF Truthy(ewidth) THEN ewidth ELSE NoneVal]

\* map.py:415-431; show_border is an argument no line reads, drawn here with
\* the styling it is documented to govern
AddGeometries ==
    /\ pc = "geometry"
    /\ UNCHANGED << folders, eevars >>
    /\ UNCHANGED build_fault
    /\ UNCHANGED shown
    /\ show_border' \in BOOLEAN
    /\ fill_color' \in FillColors
    /\ edge_color' \in EdgeColors
    /\ edge_width' \in EdgeWidths
    /\ geometry_kwargs' = build_geometry_kwargs(fill_color', edge_color',
                                                edge_width')
    /\ log("add_geometries")
    /\ pc' = "grid"
    /\ UNCHANGED << fn, country_code, output_path, show_surrounding_countries,
                    show_grid, title, arg_output_path, ee_image,
                    ee_vis_params, clip_ee_image, geo, raised, result, fig,
                    url_requests, http_gets, warnings, fetch_fault, saved >>

\* map.py:493-523
\* a variant of grid_ops that hides the frame whatever show_grid is
grid_ops_frameless(grid) ==
    (IF grid THEN << "grid" >> ELSE <<>>) \o
    << "spines[top].set_visible(False)", "spines[bottom].set_visible(False)",
       "spines[left].set_visible(False)", "spines[right].set_visible(False)" >>

\* the calls of map.py:494-523: gridlines and their labels, or the four
\* frame spines hidden
grid_ops(grid) ==
    IF grid
    THEN << "grid", "set_major_locator", "set_major_locator",
            "set_major_formatter", "set_major_formatter", "set_xlabel",
            "set_ylabel", "tick_params" >>
    ELSE << "spines[top].set_visible(False)",
            "spines[bottom].set_visible(False)",
            "spines[left].set_visible(False)",
            "spines[right].set_visible(False)" >>

\* map.py:493-523
Gridlines ==
    /\ pc = "grid"
    /\ UNCHANGED << folders, eevars >>
    /\ UNCHANGED build_fault
    /\ UNCHANGED shown
    /\ show_grid' \in BOOLEAN
    /\ logs(grid_ops(show_grid'))
    /\ pc' = "title"
    /\ UNCHANGED << fn, country_code, output_path, show_surrounding_countries,
                    show_border, title, fill_color, edge_color, edge_width,
                    arg_output_path, ee_image, ee_vis_params, clip_ee_image,
                    geo, raised, result, fig, url_requests, http_gets,
                    geometry_kwargs, warnings, fetch_fault, saved >>

\* a variant of title_calls that draws every title that is not None
title_calls_not_none(t) == IF t # NoneVal THEN << t >> ELSE <<>>

\* the texts plt.title is called with (map.py:525-526)
title_calls(t) == IF Truthy(t) THEN << t >> ELSE <<>>

\* map.py:525-526
Title ==
    /\ pc = "title"
    /\ UNCHANGED << folders, eevars >>
    /\ UNCHANGED build_fault
    /\ title' \in Titles
    /\ titles_drawn' = titles_drawn \o title_calls(title')
    /\ logs([i \in 1..Len(title_calls(title')) |-> "title"])
    /\ UNCHANGED << ee_image_clipped, img_array_rgb, img_array_mask,
                    basemap >>
    /\ pc' = "save"
    /\ UNCHANGED << fn, country_code, output_path, show_surrounding_countries,
                    show_grid, show_border, fill_color, edge_color,
                    edge_width, arg_output_path, ee_image, ee_vis_params,
                    clip_ee_image, geo, raised, result, fig, url_requests,
                    http_gets, geometry_kwargs, warnings, fetch_fault,
                    saved >>

\* the resolution savefig is called with (map.py:532)
dpi == 300

\* map.py:530-532: an I/O error of savefig is not caught
SaveFigure ==
    /\ pc = "save"
    /\ UNCHANGED << folders, eevars >>
    /\ UNCHANGED build_fault
    /\ UNCHANGED shown
    /\ log("savefig")
    /\ \/ /\ saved' = Append(saved, output_path)
          /\ pc' = "close" /\ UNCHANGED << raised, result >>
       \/ /\ Raise(ExternalError("savefig"))
          /\ UNCHANGED saved
    /\ UNCHANGED << fn, args, geo, fig, url_requests, http_gets,
                    geometry_kwargs, warnings, fetch_fault >>

\* map.py:533-535
CloseAndReturn ==
    /\ pc = "close"
    /\ UNCHANGED << folders, eevars >>
    /\ UNCHANGED build_fault
    /\ UNCHANGED shown
    /\ fig' = "closed"
    /\ log("close")
    /\ result' = output_path
    /\ pc' = "returned"
    /\ UNCHANGED << fn, args, geo, raised, url_requests, http_gets,
                    geometry_kwargs, warnings, fetch_fault, saved >>

Next ==
    \/ CallGetUtmEpsg
    \/ CallGetUtmProj
    \/ CallCreateCountryMap
    \/ ResolveOutputPath
    \/ LookupBoundary
    \/ ChooseProjection
    \/ CreateFigure
    \/ TransformGeometry
    \/ ComputeExtent
    \/ BuildEeRegion
    \/ PrepareEeImage
    \/ RequestUrls
    \/ DownloadValue
    \/ DownloadMask
    \/ DecodeAndShow
    \/ AddFeatures
    \/ AddGeometries
    \/ Gridlines
    \/ Title
    \/ SaveFigure
    \/ CloseAndReturn

Spec == Init /\ [][Next]_vars

(***************************************************************************)
(* Asset folders: ensure_asset_folder_exists (ee_rle.py:147-172) and       *)
(* create_asset_folder (ee_rle.py:174-199), which have the same body, run  *)
(* by two callers against one asset store.                                 *)
(***************************************************************************)


\* the value returned when getAsset found the folder (ee_rle.py:168, 195)
existing_result == FALSE

\* the value returned after createFolder (ee_rle.py:172, 199)
created_result == TRUE

\* what ee.data.getAsset can answer for a path: the asset, an EEException
\* because there is none, or an EEException of another cause
getAsset(path) ==
    (IF path \in assets THEN { "found" } ELSE { "not_found" })
    \cup { "service_error" }

\* the call of caller p returns value
FolderReturn(p, call, value, store) ==
    /\ caller' = [caller EXCEPT ![p] = [call EXCEPT !.pc = "idle"]]
    /\ returns' = Append(returns,
                         [by |-> p, fn |-> call.fn,
                          folder_path |-> call.folder_path,
                          before |-> call.before, after |-> store,
                          seen |-> call.seen, get_paths |-> call.get_paths,
                          create_paths |-> call.create_paths,
                          result |-> value])

\* the callers inside a call, and those whose call raised
UnderWay == { q \in Callers : caller[q].pc \in { "getAsset", "createFolder" } }
Failed == { q \in Callers : caller[q].pc = "raised" }

\* caller p calls one of the two functions (ee_rle.py:147, 174)
FolderCall(p) ==
    /\ caller[p].pc = "idle"
    /\ Len(returns) + Cardinality(UnderWay \cup Failed) < MaxFolderCalls
    /\ overlapped' = (overlapped \/ UnderWay # {})
    /\ \E f \in FolderFunctions, path \in FolderPaths :
         caller' = [caller EXCEPT ![p] =
                       [NoCall EXCEPT !.pc = "getAsset", !.fn = f,
                                      !.folder_path = path,
                                      !.before = assets]]
    /\ UNCHANGED << assets, returns, mapvars, eevars >>

\* a variant of caught_as_absent that lets every EEException but "not
\* found" leave the function
caught_as_absent_not_found_only(answer) == answer = "not_found"

\* except ee.EEException (ee_rle.py:169, 196): every EEException of
\* getAsset is handled as "the folder is absent"
caught_as_absent(answer) == answer \in { "not_found", "service_error" }

\* try: ee.data.getAsset(folder_path); return False
\* except ee.EEException: ...            (ee_rle.py:166-169, 193-196)
FolderGetAsset(p) ==
    /\ caller[p].pc = "getAsset"
    /\ \E answer \in getAsset(caller[p].folder_path) :
         LET call == [caller[p] EXCEPT
                         !.seen = answer,
                         !.get_paths = Append(@, caller[p].folder_path)]
         IN  IF answer = "found"
             THEN FolderReturn(p, call, existing_result, assets)
             ELSE IF caught_as_absent(answer)
             THEN /\ caller' = [caller EXCEPT ![p] =
                                   [call EXCEPT !.pc = "createFolder"]]
                  /\ UNCHANGED returns
             ELSE /\ caller' = [caller EXCEPT ![p] =
                                   [call EXCEPT !.pc = "raised",
                                                !.raised = answer]]
                  /\ UNCHANGED returns
    /\ UNCHANGED << assets, overlapped, mapvars, eevars >>

\* ee.data.createFolder(folder_path); return True  (ee_rle.py:170-172,
\* 197-199), inside the except clause and itself unguarded: the service
\* refuses to create over an existing asset, or fails for another cause
FolderCreate(p) ==
    /\ caller[p].pc = "createFolder"
    /\ LET path == caller[p].folder_path
           call == [caller[p] EXCEPT !.create_paths = Append(@, path)]
       IN  \/ /\ path \notin assets
              /\ assets' = assets \cup { path }
              /\ FolderReturn(p, call, created_result, assets')
           \/ /\ path \in assets
              /\ caller' = [caller EXCEPT ![p] =
                               [call EXCEPT !.pc = "raised",
                                            !.raised = "already_exists"]]
              /\ UNCHANGED << assets, returns >>
           \/ /\ caller' = [caller EXCEPT ![p] =
                               [call EXCEPT !.pc = "raised",
                                            !.raised = "service_error"]]
              /\ UNCHANGED << assets, returns >>
    /\ UNCHANGED << overlapped, mapvars, eevars >>

NextFolders ==
    \/ \E p \in Callers : FolderCall(p)
    \/ \E p \in Callers : FolderGetAsset(p)
    \/ \E p \in Callers : FolderCreate(p)

SpecFolders == Init /\ [][NextFolders]_vars

(***************************************************************************)
(* gee_redlist.ee_auth: check_authentication (ee_auth.py:16-78) and        *)
(* is_authenticated (ee_auth.py:81-95).  A str is the sequence of its      *)
(* parts, "/" being a part of its own.                                     *)
(***************************************************************************)

\* what ee.Initialize() can do (ee_auth.py:35)
InitializeOutcomes == { "ok", "EEException", "Exception" }

\* what ee.data.getAssetRoots() can answer (ee_auth.py:41): an exception,
\* None, a list of dictionaries, a list of something else
AssetRootsSamples ==
    { [kind |-> "raise", items |-> <<>>],
      [kind |-> "None", items |-> <<>>],
      [kind |-> "list", items |-> <<>>],
      [kind |-> "list",
       items |-> << [t |-> "dict", has_id |-> TRUE,
                     id |-> Str(<< "projects", "/", "test-project" >>)] >>],
      [kind |-> "list",
       items |-> << [t |-> "dict", has_id |-> TRUE,
                     id |-> Str(<< "projects", "/", "a", "/", "b" >>)],
                    [t |-> "dict", has_id |-> TRUE,
                     id |-> Str(<< "users", "/", "other" >>)] >>],
      [kind |-> "list",
       items |-> << [t |-> "dict", has_id |-> TRUE,
                     id |-> Str(<< "users", "/", "someone" >>)] >>],
      [kind |-> "list",
       items |-> << [t |-> "dict", has_id |-> FALSE, id |-> NoneVal] >>],
      [kind |-> "list",
       items |-> << [t |-> "dict", has_id |-> TRUE, id |-> NoneVal] >>],
      [kind |-> "list",
       items |-> << [t |-> "str", has_id |-> FALSE, id |-> NoneVal] >>] }

\* root_id.startswith('projects/') (ee_auth.py:47)
startswith_projects(v) ==
    Len(v.s) >= 2 /\ v.s[1] = "projects" /\ v.s[2] = "/"

\* root_id.split('/', 1)[1] (ee_auth.py:48), for a root_id with a "/"
after_first_slash(v) ==
    LET i == CHOOSE k \in 1..Len(v.s) :
                 v.s[k] = "/" /\ \A j \in 1..(k - 1) : v.s[j] # "/"
    IN  Str(SubSeq(v.s, i + 1, Len(v.s)))

\* ee_auth.py:41-50: the project id read from the asset roots, or the
\* exception raised on the way
project_from_roots(roots) ==
    IF roots.kind = "raise"
    THEN [raised |-> TRUE, project_id |-> NoneVal]
    ELSE IF roots.kind = "None" \/ Len(roots.items) = 0
    THEN [raised |-> FALSE, project_id |-> NoneVal]
    ELSE LET first == roots.items[1]
             root_id == IF first.has_id THEN first.id ELSE Str(<<>>)
         IN  IF first.t # "dict" \/ root_id.t # "str"
             THEN [raised |-> TRUE, project_id |-> NoneVal]
             ELSE IF startswith_projects(root_id)
             THEN [raised |-> FALSE, project_id |-> after_first_slash(root_id)]
             ELSE [raised |-> FALSE, project_id |-> root_id]

\* a variant of initialize_failed that handles ee.EEException only
initialize_failed_ee_only(kind) ==
    IF kind = "EEException"
    THEN [caught |-> TRUE,
          status |-> [authenticated |-> FALSE,
                      message |-> "Earth Engine authentication failed",
                      project |-> NoneVal]]
    ELSE [caught |-> FALSE, status |-> NoStatus]

\* the except clauses of ee.Initialize() (ee_auth.py:64-78)
initialize_failed(kind) ==
    IF kind = "EEException"
    THEN [caught |-> TRUE,
          status |-> [authenticated |-> FALSE,
                      message |-> "Earth Engine authentication failed",
                      project |-> NoneVal]]
    ELSE [caught |-> TRUE,
          status |-> [authenticated |-> FALSE,
                      message |-> "Authentication error",
                      project |-> NoneVal]]

\* the dictionary built once ee.Initialize() succeeded (ee_auth.py:39-62)
initialized_status(roots) ==
    LET p == project_from_roots(roots) IN
    IF p.raised
    THEN [authenticated |-> TRUE,
          message |-> "Authenticated but could not retrieve project info",
          project |-> NoneVal]
    ELSE [authenticated |-> TRUE,
          message |-> "Successfully authenticated to Earth Engine",
          project |-> p.project_id]

\* what the called function returns for a status (ee_auth.py:51, 94-95)
auth_return(f, st) ==
    IF f = "is_authenticated"
    THEN [t |-> "bool", v |-> st.authenticated]
    ELSE [t |-> "dict", v |-> st]

ee_call(op) == ee_log' = Append(ee_log, op)

\* check_authentication() or is_authenticated() is called
CallAuthentication ==
    /\ ee_pc = "idle"
    /\ ee_fn' \in { "check_authentication", "is_authenticated" }
    /\ ee_pc' = "Initialize"
    /\ UNCHANGED << ee_in, ee_log, status, ee_out, ee_raised, mapvars,
                    folders >>

\* ee.Initialize() and its except clauses (ee_auth.py:33-35, 64-78)
AuthInitialize ==
    /\ ee_pc = "Initialize"
    /\ ee_call([op |-> "ee.Initialize"])
    /\ \E outcome \in InitializeOutcomes :
         /\ ee_in' = [given |-> TRUE, initialize |-> outcome,
                      roots |-> [kind |-> "None", items |-> <<>>]]
         /\ IF outcome = "ok"
            THEN /\ ee_pc' = "getAssetRoots"
                 /\ UNCHANGED << status, ee_out, ee_raised >>
            ELSE LET h == initialize_failed(outcome) IN
                 IF h.caught
                 THEN /\ status' = h.status
                      /\ ee_out' = auth_return(ee_fn, h.status)
                      /\ ee_pc' = "returned"
                      /\ UNCHANGED ee_raised
                 ELSE /\ ee_raised' = outcome
                      /\ ee_pc' = "raised"
                      /\ UNCHANGED << status, ee_out >>
    /\ UNCHANGED << ee_fn, mapvars, folders >>

\* ee.data.getAssetRoots() and what follows it (ee_auth.py:39-62)
AuthGetAssetRoots ==
    /\ ee_pc = "getAssetRoots"
    /\ ee_call([op |-> "ee.data.getAssetRoots"])
    /\ \E roots \in AssetRootsSamples :
         /\ ee_in' = [ee_in EXCEPT !.roots = roots]
         /\ status' = initialized_status(roots)
         /\ ee_out' = auth_return(ee_fn, status')
    /\ ee_pc' = "returned"
    /\ UNCHANGED << ee_fn, ee_raised, mapvars, folders >>

(***************************************************************************)
(* gee_redlist.ee_rle.make_eoo (ee_rle.py:50-129).  An Earth Engine object *)
(* is a handle: 0 the image passed in, -1 the geometry passed in, and k    *)
(* the object returned by the k-th call of ee_log.                         *)
(***************************************************************************)
ClassImg == 0
GeoArgument == 0 - 1

\* nominal scales of the projection of class_img, in metres
\* (tests/test_ee_rle.py:48, 91)
NominalScales == { 30, 50, 100 }
\* max_error as callers pass it (ee_rle.py:53, tests/test_ee_rle.py:98)
MaxErrors == { 1, 10 }
\* best_effort: left out, or passed
BestEfforts == { "omitted", "True", "False" }

\* the default of best_effort (ee_rle.py:54)
best_effort_default == TRUE

\* the value of best_effort inside the function
best_effort_of(arg) ==
    IF arg = "omitted" THEN best_effort_default ELSE arg = "True"

\* the keyword arguments of reduceToVectors (ee_rle.py:116-121)
reduce_params(geometry, best_effort) ==
    [scale |-> 1, geometry |-> geometry, geometryType |-> "polygon",
     bestEffort |-> best_effort]

\* a variant of hull_params that always asks for the default error
hull_params_default_error(max_error) == [maxError |-> 1]

\* the keyword arguments of each convexHull (ee_rle.py:123, 126)
hull_params(max_error) == [maxError |-> max_error]

\* the object the chain has reached: what the last call returned
Reached == Len(ee_log)

\* one call op(args) on the object `on`; it returns handle Len(ee_log) + 1
ee_method(op, on, params) ==
    ee_log' = Append(ee_log, [op |-> op, on |-> on, args |-> params,
                              ret |-> Len(ee_log) + 1])

\* make_eoo(class_img, geo, max_error, best_effort) is called
CallMakeEoo ==
    /\ ee_pc = "idle"
    /\ ee_fn' = "make_eoo"
    /\ \E n \in NominalScales, g \in { "None", "given" },
          m \in MaxErrors, b \in BestEfforts :
         ee_in' = [given |-> TRUE, nominal_scale |-> n, geo_arg |-> g,
                   geo |-> GeoArgument, max_error |-> m, best_effort |-> b]
    /\ ee_pc' = "geo"
    /\ UNCHANGED << ee_log, status, ee_out, ee_raised, mapvars, folders >>

\* if geo is None: geo = class_img.geometry()  (ee_rle.py:108-109)
EooDefaultGeometry ==
    /\ ee_pc = "geo"
    /\ IF ee_in.geo_arg = "None"
       THEN /\ ee_method("geometry", ClassImg, [none |-> TRUE])
            /\ ee_in' = [ee_in EXCEPT !.geo = Len(ee_log) + 1]
       ELSE UNCHANGED << ee_log, ee_in >>
    /\ ee_pc' = "updateMask"
    /\ UNCHANGED << ee_fn, status, ee_out, ee_raised, mapvars, folders >>

\* class_img.updateMask(1)  (ee_rle.py:114-115)
EooUpdateMask ==
    /\ ee_pc = "updateMask"
    /\ ee_method("updateMask", ClassImg, [mask |-> 1])
    /\ ee_pc' = "reduceToVectors"
    /\ UNCHANGED << ee_fn, ee_in, status, ee_out, ee_raised, mapvars,
                    folders >>

\* .reduceToVectors(scale=1, geometry=geo, ...)  (ee_rle.py:116-121)
EooReduceToVectors ==
    /\ ee_pc = "reduceToVectors"
    /\ ee_method("reduceToVectors", Reached,
                 reduce_params(ee_in.geo, best_effort_of(ee_in.best_effort)))
    /\ ee_pc' = "geometry"
    /\ UNCHANGED << ee_fn, ee_in, status, ee_out, ee_raised, mapvars,
                    folders >>

\* .geometry()  (ee_rle.py:122)
EooVectorGeometry ==
    /\ ee_pc = "geometry"
    /\ ee_method("geometry", Reached, [none |-> TRUE])
    /\ ee_pc' = "convexHull"
    /\ UNCHANGED << ee_fn, ee_in, status, ee_out, ee_raised, mapvars,
                    folders >>

\* .convexHull(maxError=max_error), the first call and the second
\* (ee_rle.py:123-126); return eoo_poly (ee_rle.py:129)
EooConvexHull ==
    /\ ee_pc \in { "convexHull", "convexHull again" }
    /\ ee_method("convexHull", Reached, hull_params(ee_in.max_error))
    /\ IF ee_pc = "convexHull"
       THEN /\ ee_pc' = "convexHull again"
            /\ UNCHANGED ee_out
       ELSE /\ ee_pc' = "returned"
            /\ ee_out' = [t |-> "handle", v |-> Len(ee_log) + 1]
    /\ UNCHANGED << ee_fn, ee_in, status, ee_raised, mapvars, folders >>

NextEe ==
    \/ CallAuthentication
    \/ AuthInitialize
    \/ AuthGetAssetRoots
    \/ CallMakeEoo
    \/ EooDefaultGeometry
    \/ EooUpdateMask
    \/ EooReduceToVectors
    \/ EooVectorGeometry
    \/ EooConvexHull

SpecEe == Init /\ [][NextEe]_vars

(***************************************************************************)
(* Vocabulary of the properties.                                           *)
(***************************************************************************)
InMap == fn = "create_country_map"
Ended == pc \in { "returned", "raised" }
Has(op) == \E i \in 1..Len(calls) : calls[i] = op
Count(op) == Cardinality({ i \in 1..Len(calls) : calls[i] = op })

UpperOf ==
    [c \in { LowerAlpha[i] : i \in 1..Len(LowerAlpha) } |->
        UpperAlpha[CHOOSE i \in 1..Len(LowerAlpha) : LowerAlpha[i] = c]]
UpperChar(c) == IF c \in DOMAIN UpperOf THEN UpperOf[c] ELSE c
IsLetter(c) == c \in DOMAIN LowerOf \/ c \in DOMAIN UpperOf
IsString(v) == v.t = "str"
\* empty, or nothing but blanks
IsBlank(v) == IsString(v) /\ \A i \in 1..Len(v.s) : v.s[i] = " "
\* ^[A-Za-z]{2}$
IsTwoLetters(v) ==
    IsString(v) /\ Len(v.s) = 2 /\ IsLetter(v.s[1]) /\ IsLetter(v.s[2])

UpperSpelling(v) == Str([i \in 1..Len(v.s) |-> UpperChar(v.s[i])])
LowerSpelling(v) == Str([i \in 1..Len(v.s) |-> LowerChar(v.s[i])])

\* get_utm_epsg has been evaluated on (lon, lat)
EpsgKnown ==
    \/ fn = "get_utm_epsg"
    \/ InMap /\ (pc = "figure" \/ fig # "none")
\* get_utm_proj_without_limits has been evaluated on (utm_zone, is_south)
ProjKnown ==
    \/ fn = "get_utm_proj_without_limits"
    \/ InMap /\ (pc = "figure" \/ fig # "none")
ExtentKnown == InMap /\ Has("set_extent")

\* clamp(floor((lon + 180) / 6) + 1, 1, 60)
RefZone(x) ==
    LET raw == ((x + 180) \div 6) + 1
    IN  IF raw < 1 THEN 1 ELSE IF raw > 60 THEN 60 ELSE raw

(***************************************************************************)
(* C1.  create_country_map validates country_code, type first, then        *)
(* emptiness, then the two-letter pattern, each with its own error:        *)
(* TypeError 'country_code must be a string', ValueError 'country_code     *)
(* cannot be empty', ValueError 'must be a 2-letter ISO 3166-1 alpha-2     *)
(* code'.  The code has no validation: the statement is violated.          *)
(***************************************************************************)
C1_ValidationErrors ==
    InMap /\ Ended =>
        /\ ~IsString(country_code) =>
              /\ raised.type = "TypeError"
              /\ raised.msg = "country_code must be a string"
        /\ IsBlank(country_code) =>
              /\ raised.type = "ValueError"
              /\ raised.msg = "country_code cannot be empty"
        /\ IsString(country_code) /\ ~IsBlank(country_code)
              /\ ~IsTwoLetters(country_code) =>
              /\ raised.type = "ValueError"
              /\ raised.msg = "must be a 2-letter ISO 3166-1 alpha-2 code"

(***************************************************************************)
(* C2.  A run whose country_code is invalid makes no boundary-store        *)
(* lookup, creates no figure, sends no remote request and writes no file.  *)
(* Violated: the store is asked for 'usa'.                                 *)
(***************************************************************************)
C2_InvalidCodeTouchesNothing ==
    InMap /\ ~IsTwoLetters(country_code) =>
        /\ store_queries = <<>>
        /\ fig = "none"
        /\ calls = <<>>
        /\ url_requests = <<>> /\ http_gets = <<>>
        /\ saved = <<>>

(***************************************************************************)
(* C3.  For a well-formed code the store does not hold, the call raises    *)
(* ValueError "Country code '<code>' not found in database", creates no    *)
(* figure and writes no file.  Violated: the store's own error leaves the  *)
(* function.                                                               *)
(***************************************************************************)
C3_NotFoundIsTranslated ==
    InMap /\ Ended /\ IsTwoLetters(country_code)
          /\ LowerSpelling(country_code).s \notin DOMAIN BoundaryStore =>
        /\ pc = "raised"
        /\ raised = [type |-> "ValueError",
                     msg |-> "Country code not found in database",
                     arg |-> country_code.s]
        /\ fig = "none" /\ saved = <<>>

(***************************************************************************)
(* C4.  When a download times out or a response cannot be fetched or       *)
(* decoded, the failure is caught: no basemap is drawn, rendering goes on  *)
(* with the features, the polygon, the grid and the title, the figure is   *)
(* saved exactly once and the output path is returned.  Nothing but an     *)
(* I/O error of savefig itself leaves the function after such a failure.   *)
(***************************************************************************)
C4_FetchFailureIsSoft ==
    InMap /\ fetch_fault # "none" =>
        /\ ee_image
        /\ ~Has("imshow")
        /\ warnings # <<>>
        /\ pc \in { "features", "geometry", "grid", "title", "save",
                    "close", "returned", "raised" }
        /\ pc = "raised" => raised = ExternalError("savefig")
        /\ pc = "returned" =>
              /\ raised = NoError
              /\ result = output_path
              /\ Count("savefig") = 1
              /\ saved = << output_path >>
              /\ Has("add_feature(LAND)") /\ Has("add_feature(OCEAN)")
              /\ Count("add_geometries") = 1
              /\ show_grid => Has("grid")
              /\ Truthy(title) => Has("title")

C4_Witness ==
    /\ InMap /\ pc = "returned" /\ fetch_fault = "timeout"
    /\ http_gets = << "value", "mask" >>
    /\ show_grid /\ Truthy(title) /\ Has("grid") /\ Has("title")
    /\ saved = << output_path >>

(***************************************************************************)
(* C5.  For every longitude, +180, -180 and values outside [-180, 180]    *)
(* included, the zone of get_utm_epsg is in 1..60, so the code returned is *)
(* in 32601..32660 or 32701..32760.                                        *)
(***************************************************************************)
C5_ZoneInRange ==
    EpsgKnown => utm_epsg \in (32601 .. 32660) \cup (32701 .. 32760)

C5_Witness ==
    fn = "get_utm_epsg" /\ lon = MaxLon /\ lat < 0 /\ utm_epsg = 32760

(***************************************************************************)
(* C6.  The zone of get_utm_epsg equals clamp(floor((lon + 180) / 6) + 1,  *)
(* 1, 60): truncation toward zero never gives another zone than floor,     *)
(* also for lon < -180.                                                    *)
(***************************************************************************)
C6_ZoneIsClampedFloor ==
    EpsgKnown => utm_epsg % 100 = RefZone(lon)

\* lon < -180 where int() and floor differ before the clamp
C6_Witness ==
    /\ fn = "get_utm_epsg" /\ lon < -180
    /\ TruncDiv(lon + 180, 6) # (lon + 180) \div 6
    /\ utm_epsg % 100 = 1

(***************************************************************************)
(* C7.  The hemisphere depends on latitude alone: the code is 32600 + zone *)
(* when lat >= 0 and 32700 + zone when lat < 0; in create_country_map the  *)
(* is_south flag of the projection agrees with the hemisphere of the EPSG  *)
(* code.                                                                   *)
(***************************************************************************)
C7_HemisphereFromLatitude ==
    /\ EpsgKnown =>
          utm_epsg - RefZone(lon) = IF lat < 0 THEN 32700 ELSE 32600
    /\ InMap /\ ProjKnown =>
          /\ is_south = (utm_epsg \div 100 = 327)
          /\ (proj.false_northing = 10000000) = (utm_epsg \div 100 = 327)

C7_Witness ==
    /\ InMap /\ pc = "returned" /\ is_south /\ lat < 0
    /\ utm_epsg = 32759 /\ proj.false_northing = 10000000

(***************************************************************************)
(* C8.  For every zone in 1..60 the projection built has its central       *)
(* meridian in the middle of the zone, (zone - 1) * 6 - 180 + 3 (zone 1 -> *)
(* -177, 13 -> -105, 30 -> -3, 60 -> 177), scale factor 0.9996, false      *)
(* easting 500000, and false northing 10,000,000 exactly when is_south.    *)
(***************************************************************************)
C8_UtmParameters ==
    ProjKnown =>
        /\ utm_zone \in 1..60
        /\ 2 * proj.central_longitude =
              ((utm_zone - 1) * 6 - 180) + (utm_zone * 6 - 180)
        /\ utm_zone = 1 => proj.central_longitude = -177
        /\ utm_zone = 13 => proj.central_longitude = -105
        /\ utm_zone = 30 => proj.central_longitude = -3
        /\ utm_zone = 60 => proj.central_longitude = 177
        /\ proj.scale_factor = 9996
        /\ proj.false_easting = 500000
        /\ proj.false_northing = IF is_south THEN 10000000 ELSE 0

C8_Witness ==
    /\ fn = "get_utm_proj_without_limits" /\ utm_zone = 13 /\ is_south
    /\ proj.central_longitude = -105 /\ proj.false_northing = 10000000

(***************************************************************************)
(* C9.  The extent is the projected bounding box widened on every side by  *)
(* exactly 15% of that axis' range; for a non-degenerate axis it strictly  *)
(* contains the bounds on both sides and its maximum exceeds its minimum.  *)
(***************************************************************************)
C9_ExtentPadding ==
    ExtentKnown =>
        LET x_range == bounds[3] - bounds[1]
            y_range == bounds[4] - bounds[2]
        IN  /\ 100 * (bounds[1] - extent[1]) = 15 * x_range
            /\ 100 * (extent[2] - bounds[3]) = 15 * x_range
            /\ 100 * (bounds[2] - extent[3]) = 15 * y_range
            /\ 100 * (extent[4] - bounds[4]) = 15 * y_range
            /\ x_range > 0 =>
                  /\ extent[1] < bounds[1] /\ extent[2] > bounds[3]
                  /\ extent[2] > extent[1]
            /\ y_range > 0 =>
                  /\ extent[3] < bounds[2] /\ extent[4] > bounds[4]
                  /\ extent[4] > extent[3]

C9_Witness ==
    /\ ExtentKnown
    /\ bounds = << 300000, 100000, 300100, 100400 >>
    /\ extent = << 299985, 300115, 99940, 100460 >>

(***************************************************************************)
(* C10.  create_country_map is case-insensitive in the country code: the   *)
(* upper-case and the lower-case spelling of a two-letter code ask the     *)
(* store for the same lower-cased key, and so get the same geometry,       *)
(* projection and default output path.                                     *)
(***************************************************************************)
C10_CaseInsensitive ==
    InMap /\ IsTwoLetters(country_code) =>
        LET up == UpperSpelling(country_code)
            low == LowerSpelling(country_code)
        IN  /\ store_key(up) = low.s /\ store_key(low) = low.s
            /\ store_queries # <<>> => store_queries = << low.s >>
            /\ default_output_path(up) = default_output_path(low)
            /\ arg_output_path = NoneVal /\ pc # "output_path" =>
                  output_path = default_output_path(up)
            /\ ProjKnown =>
                  /\ country_geometry = BoundaryStore[store_key(up)]
                  /\ utm_epsg =
                        get_utm_epsg(BoundaryStore[store_key(up)].centroid[1],
                                     BoundaryStore[store_key(up)].centroid[2])

C10_Witness ==
    /\ InMap /\ pc = "returned"
    /\ country_code = Str(<< "S", "G" >>)
    /\ store_queries = << << "s", "g" >> >>
    /\ result = Str(<< "s", "g", ".png" >>)


\* C11: a call of create_country_map that returns hands back the path it
\* saved the image to, and saved exactly one image; that path is the
\* output_path argument when one was given, and otherwise the lower-cased
\* country code followed by ".png".
C11_ReturnsSavedPath ==
    (InMap /\ pc = "returned") =>
        /\ saved = << result >>
        /\ Count("savefig") = 1
        /\ IF arg_output_path = NoneVal
           THEN result = Str(LowerSpelling(country_code).s \o << ".png" >>)
           ELSE result = arg_output_path

C11_Witness ==
    /\ InMap /\ pc = "returned"
    /\ country_code = Str(<< "N", "Z" >>)
    /\ arg_output_path = NoneVal
    /\ result = Str(<< "n", "z", ".png" >>)
    /\ saved = << result >>


\* an element of the basemap is visible when it is drawn and not masked
Visible(p, b) == basemap.drawn /\ ~basemap.mask[p][b]
Elements(a) == { << p, b >> \in (1..Len(a)) \X (1..3) : b <= Len(a[p]) }

\* C12: in the basemap handed to imshow, whatever the number of bands of
\* the value raster, an element is visible exactly when the co-located
\* element of the mask raster is greater than zero, and the data shown are
\* the value raster; a mask raster that is zero everywhere gives a basemap
\* with no visible element and no error.
C12_VisibleWhereMaskPositive ==
    InMap =>
        /\ basemap.drawn =>
              /\ basemap.data = img_array_rgb
              /\ Elements(basemap.mask) = Elements(img_array_rgb)
              /\ Elements(img_array_mask) = Elements(img_array_rgb)
              /\ \A e \in Elements(img_array_rgb) :
                    Visible(e[1], e[2]) <=> img_array_mask[e[1]][e[2]] > 0
        /\ ( /\ img_array_mask # NoArray
             /\ \A e \in Elements(img_array_mask) :
                   img_array_mask[e[1]][e[2]] = 0 ) =>
              /\ basemap.drawn /\ Has("imshow") /\ fetch_fault = "none"
              /\ \A e \in Elements(img_array_mask) : ~Visible(e[1], e[2])

C12_Witness ==
    /\ InMap /\ pc = "returned" /\ basemap.drawn
    /\ Len(img_array_rgb[1]) = 3
    /\ Visible(1, 1) /\ ~Visible(1, 2) /\ img_array_mask[1][2] = 0
    /\ Visible(2, 2)

\* C13: with clip_ee_image set the supplied image is clipped exactly once,
\* to the geometry built from the WGS84 boundary, and the value request and
\* the mask request are both made on the clipped image; with clip_ee_image
\* unset the image is never clipped and both requests are made on the image
\* as supplied.
C13_ClipOnceToWgs84 ==
    InMap =>
        /\ Has("clip") <=> clip_ee_image
        /\ Count("clip") <= 1 /\ Count("ee.Geometry") = Count("clip")
        /\ ee_image_clipped # NoImage =>
              ee_image_clipped =
                 IF clip_ee_image
                 THEN [image |-> "clipped", geometry |-> "WGS84"]
                 ELSE [image |-> "supplied", geometry |-> "none"]
        /\ \A i \in 1..Len(url_requests) :
              /\ ee_image_clipped # NoImage
              /\ url_requests[i].image =
                    IF clip_ee_image THEN "clipped" ELSE "supplied"

C13_Witness ==
    /\ InMap /\ clip_ee_image /\ Count("clip") = 1
    /\ ee_image_clipped.geometry = "WGS84"
    /\ Len(url_requests) = 2
    /\ url_requests[1].on = "image" /\ url_requests[1].image = "clipped"
    /\ url_requests[2].on = "mask" /\ url_requests[2].image = "clipped"


Max(a, b) == IF a >= b THEN a ELSE b
Abs(a) == IF a >= 0 THEN a ELSE 0 - a

\* C14: in both download requests the scale is the larger side of the
\* extent divided by (dpi * 4), to within one unit of rounding.
C14_ScaleFromExtentAndDpi ==
    InMap =>
        \A i \in 1..Len(url_requests) :
            LET t == url_requests[i].params.crs_transform
                side == Max(extent[2] - extent[1], extent[4] - extent[3])
            IN  /\ t[1] = t[5]
                /\ Abs(t[1] * (dpi * 4) - side) < dpi * 4

Spines ==
    { "spines[left].set_visible(False)", "spines[right].set_visible(False)",
      "spines[bottom].set_visible(False)", "spines[top].set_visible(False)" }
GridlineOps ==
    { "grid", "set_major_locator", "set_major_formatter", "set_xlabel",
      "set_ylabel", "tick_params" }
\* the grid step is behind the call
GridDone ==
    \/ pc \in { "title", "save", "close", "returned" }
    \/ pc = "raised" /\ Has("savefig")

\* C15: once the grid step is done, with show_grid false each of the four
\* frame spines was hidden exactly once and nothing of the grid was drawn;
\* with show_grid true no spine was hidden and the grid was drawn once.  No
\* spine is hidden before that step.
C15_SpinesHiddenWithoutGrid ==
    InMap =>
        IF GridDone /\ ~show_grid
        THEN /\ \A sp \in Spines : Count(sp) = 1
             /\ \A g \in GridlineOps : ~Has(g)
        ELSE /\ \A sp \in Spines : ~Has(sp)
             /\ GridDone => Count("grid") = 1

C15_Witness ==
    /\ InMap /\ pc = "returned" /\ ~show_grid
    /\ \A sp \in Spines : Count(sp) = 1
    /\ ~Has("grid")

\* the title step is behind the call
TitleDone ==
    \/ pc \in { "save", "close", "returned" }
    \/ pc = "raised" /\ Has("savefig")

\* C16: once the title step is done, plt.title was called exactly once, with
\* the caller's text, when the title is a non-empty string, and was not
\* called at all when the title is None or empty; it is never called before
\* that step.
C16_TitleIffNonEmpty ==
    InMap =>
        IF TitleDone /\ IsString(title) /\ Len(title.s) > 0
        THEN titles_drawn = << title >> /\ Count("title") = 1
        ELSE titles_drawn = <<>> /\ Count("title") = 0

C16_Witness ==
    /\ InMap /\ pc = "returned"
    /\ title = Str(<< "T" >>)
    /\ titles_drawn = << Str(<< "T" >>) >> /\ Count("title") = 1

\* C17: when show_border is false the region polygon is drawn without an
\* edge colour and without a line width.
C17_EdgeOnlyWithBorder ==
    (InMap /\ Has("add_geometries") /\ ~show_border) =>
        /\ ~geometry_kwargs.has_edgecolor
        /\ ~geometry_kwargs.has_linewidth

\* C18: a call that created a figure and has ended, by returning or by
\* raising, has closed that figure, exactly once.
C18_FigureClosedOnEveryExit ==
    (InMap /\ Ended /\ Has("figure")) =>
        fig = "closed" /\ Count("close") = 1


\* callers p and q are in, or were last in, calls on the same path whose
\* existence checks both reported the folder absent
Racing(p, q) ==
    /\ p # q
    /\ caller[p].folder_path = caller[q].folder_path
    /\ caller[p].seen = "not_found" /\ caller[q].seen = "not_found"

\* C19: when two callers are in calls on the same absent path and both
\* existence checks reported it absent, neither call raises because the
\* folder already exists, and once both calls are over the folder exists.
C19_CreateRaceTolerated ==
    \A p \in Callers, q \in Callers :
        Racing(p, q) =>
            /\ caller[p].raised # "already_exists"
            /\ (caller[p].pc = "idle" /\ caller[q].pc = "idle") =>
                  caller[p].folder_path \in assets

\* C20: in a run whose folder calls never overlap, a call made while the
\* folder exists calls getAsset once with its path, never calls
\* createFolder, does not raise, and returns False leaving the asset store
\* as it was; a call that returned from an absent folder called
\* createFolder once with the same path, returned True and added exactly
\* that folder.  A call returns True exactly when it created the folder,
\* the folder exists after every call that ended, and two consecutive
\* calls on an absent path return True then False.
C20_SequentialFolderCalls ==
    ~overlapped =>
        /\ \A i \in 1..Len(returns) :
              LET r == returns[i]
                  existed == r.folder_path \in r.before
              IN  /\ r.result <=> (r.after # r.before)
                  /\ r.folder_path \in r.after
                  /\ r.get_paths = << r.folder_path >>
                  /\ r.result = ~existed
                  /\ IF existed
                     THEN /\ r.create_paths = <<>>
                          /\ r.after = r.before
                     ELSE /\ r.create_paths = << r.folder_path >>
                          /\ r.after = r.before \cup { r.folder_path }
        /\ \A i \in 1..(Len(returns) - 1) :
              ( /\ returns[i].folder_path = returns[i + 1].folder_path
                /\ returns[i].folder_path \notin returns[i].before ) =>
                    returns[i].result /\ ~returns[i + 1].result
        /\ \A p \in Callers :
              LET c == caller[p] IN
              (c.pc # "idle" /\ c.folder_path \in c.before) =>
                  /\ c.create_paths = <<>>
                  /\ c.pc # "raised"


EeCalls(op) == { i \in 1..Len(ee_log) : ee_log[i].op = op }

\* C21: check_authentication and is_authenticated never raise.  The
\* dictionary built has the keys authenticated, message and project;
\* authenticated is false exactly when ee.Initialize raised, whatever the
\* exception, and then project is None and the asset roots are not read;
\* when ee.Initialize succeeded and reading the asset roots raised,
\* authenticated is true and project is None.  check_authentication
\* returns that dictionary and is_authenticated its authenticated flag.
C21_AuthenticationNeverRaises ==
    ee_fn \in { "check_authentication", "is_authenticated" } =>
        /\ ee_pc # "raised" /\ ee_raised = "none"
        /\ ee_pc = "returned" =>
              /\ DOMAIN status = { "authenticated", "message", "project" }
              /\ status.authenticated = (ee_in.initialize = "ok")
              /\ ee_in.initialize # "ok" =>
                    /\ status.project = NoneVal
                    /\ EeCalls("ee.data.getAssetRoots") = {}
              /\ (ee_in.initialize = "ok" /\ ee_in.roots.kind = "raise") =>
                    status.authenticated /\ status.project = NoneVal
              /\ ee_out = IF ee_fn = "is_authenticated"
                          THEN [t |-> "bool", v |-> status.authenticated]
                          ELSE [t |-> "dict", v |-> status]

C21_Witness ==
    /\ ee_fn = "is_authenticated" /\ ee_pc = "returned"
    /\ ee_in.initialize = "Exception"
    /\ ~status.authenticated /\ status.project = NoneVal
    /\ status.message = "Authentication error"
    /\ ee_out = [t |-> "bool", v |-> FALSE]

\* C22: a call of make_eoo that returned made exactly two convexHull
\* calls, the last two calls of all, both with maxError equal to the
\* caller's max_error: the first on the geometry() of the reduceToVectors
\* of class_img.updateMask(1), the second on the result of the first; the
\* result of the second is what make_eoo returns.
C22_HullTwice ==
    (ee_fn = "make_eoo" /\ ee_pc = "returned") =>
        LET n == Len(ee_log) IN
        /\ n >= 5
        /\ EeCalls("convexHull") = { n - 1, n }
        /\ ee_log[n - 1].args = [maxError |-> ee_in.max_error]
        /\ ee_log[n].args = [maxError |-> ee_in.max_error]
        /\ ee_log[n].on = ee_log[n - 1].ret
        /\ ee_log[n - 1].on = ee_log[n - 2].ret
        /\ ee_log[n - 2].op = "geometry"
        /\ ee_log[n - 2].on = ee_log[n - 3].ret
        /\ ee_log[n - 3].op = "reduceToVectors"
        /\ ee_log[n - 3].on = ee_log[n - 4].ret
        /\ ee_log[n - 4].op = "updateMask"
        /\ ee_log[n - 4].args = [mask |-> 1]
        /\ ee_log[n - 4].on = ClassImg
        /\ \A i \in 1..n : ee_log[i].ret = i
        /\ ee_out = [t |-> "handle", v |-> ee_log[n].ret]

C22_Witness ==
    /\ ee_fn = "make_eoo" /\ ee_pc = "returned"
    /\ ee_in.max_error = 10 /\ ee_in.geo_arg = "given"
    /\ Len(ee_log) = 5
    /\ ee_log[4].op = "convexHull" /\ ee_log[4].args.maxError = 10
    /\ ee_log[5].op = "convexHull" /\ ee_log[5].args.maxError = 10
    /\ ee_log[5].on = 4 /\ ee_out.v = 5

\* C23: make_eoo reduces to vectors at the nominal scale of the image's
\* projection, but at 50 m when that is smaller, and with bestEffort false
\* unless the caller passed best_effort=True.
C23_ReduceAtNominalScale ==
    ee_fn = "make_eoo" =>
        \A i \in EeCalls("reduceToVectors") :
            /\ ee_log[i].args.scale = Max(ee_in.nominal_scale, 50)
            /\ ee_log[i].args.bestEffort = (ee_in.best_effort = "True")


\* C24: the x limits of the projection get_utm_proj_without_limits
\* returns lie strictly outside those of the standard UTM projection of
\* the same zone and hemisphere, on both sides, and span more than ten
\* times their range.
C24_LimitsEncloseStandard ==
    ProjKnown =>
        LET custom == x_limits(proj)
            standard == x_limits([proj EXCEPT !.projection = "UTM"])
        IN  /\ proj.projection = "TransverseMercator"
            /\ custom[1] < standard[1] /\ custom[2] > standard[2]
            /\ custom[2] - custom[1] > 10 * (standard[2] - standard[1])

C24_Witness ==
    /\ fn = "get_utm_proj_without_limits" /\ utm_zone = 13 /\ ~is_south
    /\ proj.projection = "TransverseMercator"
    /\ x_limits(proj) = << -20000000, 20000000 >>


\* the layer of each drawing operation, back to front
DrawRank ==
    [op \in { "stock_img" } |-> 1] @@ [op \in { "imshow" } |-> 2] @@
    [op \in { "add_feature(LAND)", "add_feature(OCEAN)",
              "add_feature(COASTLINE)", "add_feature(BORDERS)" } |-> 3] @@
    [op \in { "add_geometries" } |-> 4] @@
    [op \in GridlineOps \cup Spines |-> 5] @@
    [op \in { "title" } |-> 6] @@ [op \in { "savefig" } |-> 7] @@
    [op \in { "close" } |-> 8]
IsDrawing(op) == op \in DOMAIN DrawRank

\* C25: in a call that returned, the drawing operations were made back to
\* front: the reference image first, then the raster basemap when it was
\* fetched, then the land, ocean, coastline and border features (ocean and
\* land only when the surroundings are not shown), then the region polygon,
\* once, then the grid or the hiding of the spines, then the title, then
\* one save and the closing of the figure, after which nothing is drawn.
C25_BackToFront ==
    (InMap /\ pc = "returned") =>
        LET d == SelectSeq(calls, IsDrawing)
            n == Len(d)
            times(op) == Cardinality({ i \in 1..n : d[i] = op })
        IN  /\ \A i \in 1..(n - 1) : DrawRank[d[i]] <= DrawRank[d[i + 1]]
            /\ d[1] = "stock_img" /\ times("stock_img") = 1
            /\ Has("imshow") <=> basemap.drawn
            /\ times("add_geometries") = 1
            /\ times("savefig") = 1 /\ times("close") = 1
            /\ calls[Len(calls) - 1] = "savefig"
            /\ calls[Len(calls)] = "close"
            /\ Has("add_feature(LAND)") /\ Has("add_feature(OCEAN)")
            /\ Has("add_feature(COASTLINE)") <=> show_surrounding_countries
            /\ Has("add_feature(BORDERS)") <=> show_surrounding_countries
            /\ \E sp \in Spines \cup { "grid" } : Has(sp)

C25_Witness ==
    /\ InMap /\ pc = "returned" /\ basemap.drawn
    /\ ~show_surrounding_countries /\ ~show_grid /\ Truthy(title)
    /\ SelectSeq(calls, IsDrawing) =
          << "stock_img", "imshow", "add_feature(OCEAN)",
             "add_feature(LAND)", "add_geometries",
             "spines[top].set_visible(False)",
             "spines[bottom].set_visible(False)",
             "spines[left].set_visible(False)",
             "spines[right].set_visible(False)", "title", "savefig",
             "close" >>

\* C26: the request for the values and the request for the mask carry the
\* same region (the extent's rectangle), format, crs (the EPSG code computed
\* for the region's UTM zone) and crs_transform (one scale, origin at the
\* extent's minimum x and minimum y); they are made on the same image, the
\* first on the image and the second on its mask.
C26_RequestsAligned ==
    InMap =>
        /\ Len(url_requests) <= 2
        /\ \A i \in 1..Len(url_requests) :
              LET r == url_requests[i].params IN
              /\ r.format = "GEO_TIFF"
              /\ r.crs = utm_epsg
              /\ r.region = << extent[1], extent[3], extent[2], extent[4] >>
              /\ r.crs_transform = << r.crs_transform[1], 0, extent[1],
                                      0, r.crs_transform[1], extent[3] >>
              /\ url_requests[i].on = IF i = 1 THEN "image" ELSE "mask"
        /\ Len(url_requests) = 2 =>
              /\ url_requests[1].params = url_requests[2].params
              /\ url_requests[1].image = url_requests[2].image

C26_Witness ==
    /\ InMap /\ Len(url_requests) = 2
    /\ extent = << 299985, 300115, 99940, 100460 >>
    /\ url_requests[2].on = "mask"
    /\ url_requests[2].params.crs_transform[3] = 299985
    /\ url_requests[2].params.crs_transform[6] = 99940
    /\ url_requests[1].params = url_requests[2].params

\* C27: imshow is called at most once, and only when the response with the
\* values and the response with the mask were both received, one GET each,
\* and both decoded, with no failure in the try block; after a failed
\* download or decode it is never called.
C27_ShowAfterBothDecoded ==
    InMap =>
        /\ Has("imshow") =>
              /\ Count("imshow") = 1
              /\ http_gets = << "value", "mask" >>
              /\ Count("requests.get") = 2
              /\ img_array_rgb # NoArray /\ img_array_mask # NoArray
              /\ fetch_fault = "none"
        /\ fetch_fault # "none" => ~Has("imshow") /\ ~basemap.drawn

C27_Witness ==
    /\ InMap /\ pc = "features" /\ Has("imshow")
    /\ http_gets = << "value", "mask" >>
    /\ calls[Len(calls)] = "imshow"
    /\ calls[Len(calls) - 1] = "requests.get"

\* C28: the GETs of a call are at most one for the values followed by at
\* most one for the mask, and once a GET has timed out the call issues no
\* further GET; a timeout of the first GET leaves the mask unrequested.
C28_NoGetAfterTimeout ==
    [][ /\ Len(http_gets') <= 2
        /\ \A i \in 1..Len(http_gets') :
              http_gets'[i] = << "value", "mask" >>[i]
        /\ fetch_fault = "timeout" => http_gets' = http_gets ]_vars

C28_Witness ==
    /\ InMap /\ pc = "returned" /\ fetch_fault = "timeout"
    /\ http_gets = << "value" >> /\ Count("requests.get") = 1
    /\ warnings = << TimeoutWarning >>

\* C29: an error raised while the remote request is built (the request
\* rectangle, the clip, visualize, either getDownloadURL) is not caught: it
\* leaves create_country_map as it was raised, no warning is printed, no
\* download is attempted, nothing is saved and nothing is returned.
C29_BuildErrorsPropagate ==
    (InMap /\ build_fault # "none") =>
        /\ pc = "raised" /\ raised = ExternalError(build_fault)
        /\ warnings = <<>> /\ http_gets = <<>>
        /\ ~Has("savefig") /\ saved = <<>> /\ result = NoneVal

C29_Witness ==
    /\ InMap /\ pc = "raised" /\ build_fault = "getDownloadURL(mask)"
    /\ raised = ExternalError("getDownloadURL(mask)")
    /\ Len(url_requests) = 2 /\ saved = <<>> /\ result = NoneVal

\* C30: a folder call whose existence check ended in an EEException, of
\* whatever cause, goes on to createFolder with its path; an exception of
\* createFolder leaves the function, no exception of getAsset does; and a
\* call returns True only after its createFolder succeeded, False only
\* after getAsset found the folder.
C30_EveryCheckErrorMeansAbsent ==
    /\ \A p \in Callers :
          LET c == caller[p] IN
          /\ (c.seen \in { "not_found", "service_error" }) =>
                \/ c.pc = "createFolder" /\ c.create_paths = <<>>
                \/ c.pc # "createFolder" /\
                   c.create_paths = << c.folder_path >>
          /\ c.pc = "raised" =>
                /\ c.create_paths = << c.folder_path >>
                /\ c.raised \in { "already_exists", "service_error" }
    /\ \A i \in 1..Len(returns) :
          LET r == returns[i] IN
          IF r.result
          THEN /\ r.seen \in { "not_found", "service_error" }
               /\ r.create_paths = << r.folder_path >>
               /\ r.folder_path \in r.after
          ELSE r.seen = "found" /\ r.create_paths = <<>>

C30_Witness ==
    /\ Len(returns) = 1 /\ returns[1].seen = "service_error"
    /\ returns[1].result /\ returns[1].create_paths # <<>>
    /\ \E p \in Callers :
          /\ caller[p].pc = "raised" /\ caller[p].seen = "service_error"
          /\ caller[p].raised = "already_exists"

=============================================================================
